---- MODULE Spec2Model ----
(***************************************************************************)
(* State-machine model of the vfkit machine driver                          *)
(* (pkg/drivers/vfkit/vfkit.go): one Driver instance, the hypervisor        *)
(* (vfkit) child process with its PID file and control socket, and the     *)
(* optional vmnet-helper process.  The driver is single-threaded; the      *)
(* child processes and the operating system act between its steps.         *)
(***************************************************************************)
EXTENDS Integers, Sequences, FiniteSets, TLC

(* ------------------------------ bounds --------------------------------- *)

\* Process ids the operating system hands out to hypervisor launches.
MaxPid == 2

(* -------------------------- program constants -------------------------- *)

RetryBase == 60
NestedMultiplier == 3
DefaultMultiplier == 1
DefaultSSHPort == 22

(* ------------------------------ domains -------------------------------- *)

NoPid == 0
PIDs == 1..MaxPid
\* Addresses the DHCP lease source can hand to the guest.
IPs == {"ip1", "ip2"}
\* The MAC address configured for network=nat, and the one vmnet-helper reports.
NatMAC == "mac_nat"
HelperMAC == "mac_vmnet"

VARIABLES
    \* Driver fields
    MACAddress,     \* d.MACAddress
    IPAddress,      \* d.IPAddress
    SSHPort,        \* d.SSHPort
    SSHUser,        \* d.SSHUser
    VmnetHelper,    \* d.VmnetHelper != nil
    \* Host state
    pidfile,        \* content of vfkit.pid: NoPid when the file is absent
    proc,           \* per pid: "free", "vfkit", "stopping" (vfkit asked to exit), "other"
    sock,           \* pid of the vfkit process serving vfkit.sock, NoPid when none
    hpidfile,       \* vmnet-helper PID file present
    hproc,          \* vmnet-helper process: "dead", "running", "stopping"
    disk,           \* disk.img: "none", "archive" (written, not resized), "sized"
    \* Control state of the driver
    created,        \* Create has been called
    pc,             \* position of the driver inside the current operation
    op,             \* the exported method being (or last) executed
    ret,            \* result of the last completed method: [err, val]
    nestedVM,       \* setupIP: the answer of detect.NestedVM()
    multiplier,     \* setupIP: the multiplier variable
    i,              \* setupIP: loop counter
    err,            \* setupIP: the err variable
    probes,         \* WaitForTCPWithDelay: failed probes of the current wait, modulo 2
    \* Observation (history) variables
    trace,          \* steps taken by the current Start / Stop / Kill body
    lookups,        \* lease lookups made by the current setupIP
    firstOk,        \* number of the first successful lookup of the current setupIP
    foundIP,        \* address returned by that lookup, "" when there was none
    sigOnly,        \* every lookup of the current setupIP failed with the bootpd
                    \* signature
    unblocks,       \* firewall.UnblockBootpd calls made by the current setupIP
    pre,            \* observable state when the current method was called
    prev,           \* what the method that completed last was, kept until the
                    \* next call and through a Stop, Kill, GetState or GetURL
    oldAlive,       \* vfkit processes alive when the last vfkit was launched
    obs             \* sub-results seen by the GetState that has just run

vars == << MACAddress, IPAddress, SSHPort, SSHUser, VmnetHelper, pidfile, proc, sock,
           hpidfile, hproc, disk, created, pc, op, ret, nestedVM, multiplier, i, err, probes,
           trace,
           lookups, firstOk, foundIP, sigOnly, unblocks, pre, prev, oldAlive, obs >>

driverVars == << MACAddress, IPAddress, SSHPort, SSHUser, VmnetHelper >>
hostVars == << pidfile, proc, sock, hpidfile, hproc, disk >>
ipVars == << nestedVM, multiplier, i, err, probes, lookups, firstOk, foundIP, sigOnly >>
histVars == << trace, unblocks, pre, prev, oldAlive, obs >>

(* --------------------- external collaborators -------------------------- *)

\* A live process with this pid whose executable is vfkit.
IsVfkit(p) == p \in PIDs /\ proc[p] \in {"vfkit", "stopping"}

AliveVfkit == {p \in PIDs : IsVfkit(p)}

\* process.ReadPidfile: the pid, os.ErrNotExist when the file is absent, or
\* another read failure of a file that is there.
ReadPidfile ==
    IF pidfile = NoPid
    THEN {[err |-> "ErrNotExist", pid |-> NoPid]}
    ELSE {[err |-> "nil", pid |-> pidfile], [err |-> "EIO", pid |-> NoPid]}

\* process.Exists(pid, "vfkit"): whether a process with that pid and name is
\* alive, or a failure of the check.
Exists(pid) ==
    {[err |-> "nil", exists |-> IsVfkit(pid)], [err |-> "EFAIL", exists |-> TRUE]}

\* process.Terminate / process.Kill (pid, "vfkit"): the signal is sent (nil),
\* there is no such process (os.ErrProcessDone), or signalling fails.
Signal(pid) ==
    IF IsVfkit(pid) THEN {"nil", "EPERM"} ELSE {"ErrProcessDone", "EPERM"}

\* The POST of SetVFKitState: answered ("ok"), delivered but the answer lost
\* ("EOF"), or not delivered ("ECONNREFUSED").
Post ==
    IF IsVfkit(sock) THEN {"ok", "EOF", "ECONNREFUSED"} ELSE {"ECONNREFUSED"}

\* The process table after a stop request has reached process p.
Stopping(pr, p) == IF p \in PIDs /\ pr[p] = "vfkit" THEN [pr EXCEPT ![p] = "stopping"] ELSE pr

\* vmnet.Helper, consumed through its start/stop/state/MAC contract.
HelperAlive == hproc \in {"running", "stopping"}

\* Helper.GetState: a process-supervisor state query on the helper's PID file.
VmnetHelperGetState ==
    { [st |-> "Error", err |-> "err", hpidfile |-> hpidfile],
      IF ~hpidfile THEN [st |-> "Stopped", err |-> "nil", hpidfile |-> FALSE]
      ELSE IF ~HelperAlive THEN [st |-> "Stopped", err |-> "nil", hpidfile |-> FALSE]
      ELSE [st |-> "Running", err |-> "nil", hpidfile |-> TRUE] }

\* Helper.Stop / Helper.Kill: signal the recorded helper process; an absent PID
\* file is success, a stale one is removed.
VmnetHelperSignal ==
    IF ~hpidfile THEN {[err |-> "nil", hpidfile |-> FALSE, hproc |-> hproc]}
    ELSE IF ~HelperAlive
         THEN {[err |-> "nil", hpidfile |-> FALSE, hproc |-> hproc],
               [err |-> "err", hpidfile |-> TRUE, hproc |-> hproc]}
         ELSE {[err |-> "nil", hpidfile |-> TRUE, hproc |-> "stopping"],
               [err |-> "err", hpidfile |-> TRUE, hproc |-> hproc]}

\* Helper.Start: launches the helper and records its pid, or fails.
VmnetHelperStart ==
    { [err |-> "nil", hpidfile |-> TRUE, hproc |-> "running"],
      [err |-> "err", hpidfile |-> hpidfile, hproc |-> hproc] }

\* pkgdrivers.GetIPAddressByMACAddress: the lease's address, or no address and
\* an error that does or does not carry the bootpd signature.
GetIPAddressByMACAddress ==
    {[ip |-> a, err |-> "nil"] : a \in IPs}
        \cup {[ip |-> "", err |-> "bootpd"], [ip |-> "", err |-> "other"]}

(* ------------------------- pure parts of the driver -------------------- *)

\* setupIP's multiplier, given the answer of detect.NestedVM().
Multiplier(nested) == IF nested THEN NestedMultiplier ELSE DefaultMultiplier

\* The number of iterations of setupIP's retry loop for multiplier m.
Budget(m) == RetryBase * m

\* A retry loop without its break.
AfterAttemptNoBreak(e) == "continue"

\* Whether the retry loop leaves after a lookup that returned e.
AfterAttempt(e) == IF e = "nil" THEN "break" ELSE "continue"

\* One iteration of setupIP's retry loop on every run at once.  c.heads holds
\* the values of (d.IPAddress, err) with which the loop test is reached, c.out
\* the values with which the loop has been left by break.
LoopBody(c) ==
    IF c.heads = {} THEN c
    ELSE [heads |-> {r \in GetIPAddressByMACAddress : AfterAttempt(r.err) = "continue"},
          out |-> c.out \cup {r \in GetIPAddressByMACAddress : AfterAttempt(r.err) = "break"}]

\* n iterations of the loop, split in halves to keep the evaluation shallow;
\* a run that has left the loop makes no further iteration.
RECURSIVE RetryLoop(_, _)
RetryLoop(n, c) ==
    IF n = 0 THEN c
    ELSE IF n = 1 THEN LoopBody(c)
    ELSE LET half == RetryLoop(n \div 2, c)
         IN  IF half.heads = {} THEN half ELSE RetryLoop(n - (n \div 2), half)

\* Every (d.IPAddress, err) the retry loop can end with: by break, or with
\* the loop test failing after Budget iterations.
setupIPExits(m) ==
    LET c == RetryLoop(Budget(m), [heads |-> {[ip |-> IPAddress, err |-> "nil"]}, out |-> {}])
    IN  c.out \cup c.heads

\* isBootpdError finding the signature in no error.
isBootpdErrorNever(e) == FALSE

\* isBootpdError finding the signature in every error.
isBootpdErrorAlways(e) == TRUE

\* isBootpdError: the message contains "could not find an IP address".
isBootpdError(e) == e = "bootpd"

\* getVfkitState taking an absent PID file for a running hypervisor.
getVfkitStateAbsentRunning(rd, ex, rm) ==
    IF rd.err # "nil"
    THEN IF rd.err # "ErrNotExist"
         THEN [st |-> "Error", err |-> rd.err, pidfile |-> pidfile]
         ELSE [st |-> "Running", err |-> "nil", pidfile |-> pidfile]
    ELSE IF ex.err # "nil"
    THEN [st |-> "Error", err |-> ex.err, pidfile |-> pidfile]
    ELSE IF ~ex.exists
    THEN [st |-> "Stopped", err |-> "nil", pidfile |-> IF rm THEN NoPid ELSE pidfile]
    ELSE [st |-> "Running", err |-> "nil", pidfile |-> pidfile]

\* getVfkitState without the os.Remove of the stale PID file.
getVfkitStateKeepStale(rd, ex, rm) ==
    IF rd.err # "nil"
    THEN IF rd.err # "ErrNotExist"
         THEN [st |-> "Error", err |-> rd.err, pidfile |-> pidfile]
         ELSE [st |-> "Stopped", err |-> "nil", pidfile |-> pidfile]
    ELSE IF ex.err # "nil"
    THEN [st |-> "Error", err |-> ex.err, pidfile |-> pidfile]
    ELSE IF ~ex.exists
    THEN [st |-> "Stopped", err |-> "nil", pidfile |-> pidfile]
    ELSE [st |-> "Running", err |-> "nil", pidfile |-> pidfile]

\* getVfkitState, given the outcomes of ReadPidfile, Exists and os.Remove.
getVfkitState(rd, ex, rm) ==
    IF rd.err # "nil"
    THEN IF rd.err # "ErrNotExist"
         THEN [st |-> "Error", err |-> rd.err, pidfile |-> pidfile]
         ELSE [st |-> "Stopped", err |-> "nil", pidfile |-> pidfile]
    ELSE IF ex.err # "nil"
    THEN [st |-> "Error", err |-> ex.err, pidfile |-> pidfile]
    ELSE IF ~ex.exists
    THEN [st |-> "Stopped", err |-> "nil", pidfile |-> IF rm THEN NoPid ELSE pidfile]
    ELSE [st |-> "Running", err |-> "nil", pidfile |-> pidfile]

\* getVmnetHelperState, given the outcome of Helper.GetState.
getVmnetHelperState(hr) ==
    IF ~VmnetHelper
    THEN [st |-> "Stopped", err |-> "nil", hpidfile |-> hpidfile]
    ELSE hr

\* GetState that asks the helper whenever the hypervisor is not Running, a
\* failed hypervisor query included.
GetStateErrorToHelper(v, hr) ==
    IF v.st = "Running"
    THEN [st |-> "Running", err |-> "nil", pidfile |-> v.pidfile, hpidfile |-> hpidfile]
    ELSE LET h == getVmnetHelperState(hr)
         IN  [st |-> h.st, err |-> h.err, pidfile |-> v.pidfile, hpidfile |-> h.hpidfile]

\* GetState, given getVfkitState's result v and the outcome of Helper.GetState.
GetState(v, hr) ==
    IF v.err # "nil"
    THEN [st |-> "Error", err |-> v.err, pidfile |-> v.pidfile, hpidfile |-> hpidfile]
    ELSE IF v.st = "Running"
    THEN [st |-> "Running", err |-> "nil", pidfile |-> v.pidfile, hpidfile |-> hpidfile]
    ELSE LET h == getVmnetHelperState(hr)
         IN  [st |-> h.st, err |-> h.err, pidfile |-> v.pidfile, hpidfile |-> h.hpidfile]

\* One run of GetState with what it saw: hv / hverr the hypervisor query's
\* result, hs the state the helper reports, stale whether the PID file named a
\* pid that is no live vfkit process, removed whether os.Remove succeeded.
GetStateRun(rd, ex, rm, hr) ==
    LET v == getVfkitState(rd, ex, rm)
        g == GetState(v, hr)
    IN  [st |-> g.st, err |-> g.err, pidfile |-> g.pidfile, hpidfile |-> g.hpidfile,
         hv |-> v.st, hverr |-> v.err, hs |-> getVmnetHelperState(hr).st,
         stale |-> pidfile # NoPid /\ ~IsVfkit(pidfile),
         checked |-> rd.err = "nil" /\ ex.err = "nil", removed |-> rm]

GetStateOutcomes ==
    UNION { UNION { { GetStateRun(rd, ex, rm, hr) : rm \in BOOLEAN, hr \in VmnetHelperGetState }
                    : ex \in Exists(rd.pid) }
            : rd \in ReadPidfile }

\* What GetState returns when no query fails (and without its clean-up).
StateView ==
    IF IsVfkit(pidfile) THEN "Running"
    ELSE IF VmnetHelper /\ hpidfile /\ HelperAlive THEN "Running"
    ELSE "Stopped"

\* GetURL without its test of the PID file.
GetURLWithoutPidfile(ip) ==
    IF ip = "" THEN ""
    ELSE "tcp://" \o ip \o ":2376"

\* GetURL, given the ip GetIP returned.
GetURL(ip) ==
    IF pidfile = NoPid THEN ""
    ELSE IF ip = "" THEN ""
    ELSE "tcp://" \o ip \o ":2376"

\* stopVfkit returning the absence of the PID file as an error.
stopVfkitAbsentIsError(po, rd, sg, rm) ==
    LET pr == IF po \in {"ok", "EOF"} THEN Stopping(proc, sock) ELSE proc
    IN  IF po = "ok"
        THEN [err |-> "nil", proc |-> pr, pidfile |-> pidfile, ev |-> <<"post_ok">>]
        ELSE IF rd.err # "nil"
        THEN [err |-> rd.err, proc |-> pr, pidfile |-> pidfile,
              ev |-> <<"post_" \o po, "read_err">>]
        ELSE IF sg # "nil"
        THEN IF sg # "ErrProcessDone"
             THEN [err |-> sg, proc |-> pr, pidfile |-> pidfile,
                   ev |-> <<"post_" \o po, "sig_err">>]
             ELSE [err |-> "nil", proc |-> pr,
                   pidfile |-> IF rm THEN NoPid ELSE pidfile,
                   ev |-> <<"post_" \o po, "sig_done">>]
        ELSE [err |-> "nil", proc |-> Stopping(pr, rd.pid), pidfile |-> pidfile,
              ev |-> <<"post_" \o po, "sig_sent">>]

\* stopVfkit whose fallback reads the PID file but sends no signal.
stopVfkitNoTerminate(po, rd, sg, rm) ==
    LET pr == IF po \in {"ok", "EOF"} THEN Stopping(proc, sock) ELSE proc
    IN  IF po = "ok"
        THEN [err |-> "nil", proc |-> pr, pidfile |-> pidfile, ev |-> <<"post_ok">>]
        ELSE IF rd.err # "nil"
        THEN IF rd.err # "ErrNotExist"
             THEN [err |-> rd.err, proc |-> pr, pidfile |-> pidfile,
                   ev |-> <<"post_" \o po, "read_err">>]
             ELSE [err |-> "nil", proc |-> pr, pidfile |-> pidfile,
                   ev |-> <<"post_" \o po, "read_noent">>]
        ELSE [err |-> "nil", proc |-> pr, pidfile |-> pidfile,
              ev |-> <<"post_" \o po, "read_ok">>]

\* killVfkit returning the control channel's error instead of falling back.
killVfkitNoFallback(po, rd, sg, rm) ==
    LET pr == IF po \in {"ok", "EOF"} THEN Stopping(proc, sock) ELSE proc
    IN  IF po = "ok"
        THEN [err |-> "nil", proc |-> pr, pidfile |-> pidfile, ev |-> <<"post_ok">>]
        ELSE [err |-> po, proc |-> pr, pidfile |-> pidfile, ev |-> <<"post_" \o po>>]

\* The body shared by stopVfkit and killVfkit, given the outcomes of the POST,
\* ReadPidfile, the signal and os.Remove: the error returned, the process
\* table, the PID file and the steps taken.
stopVfkit(po, rd, sg, rm) ==
    LET pr == IF po \in {"ok", "EOF"} THEN Stopping(proc, sock) ELSE proc
    IN  IF po = "ok"
        THEN [err |-> "nil", proc |-> pr, pidfile |-> pidfile, ev |-> <<"post_ok">>]
        ELSE IF rd.err # "nil"
        THEN IF rd.err # "ErrNotExist"
             THEN [err |-> rd.err, proc |-> pr, pidfile |-> pidfile,
                   ev |-> <<"post_" \o po, "read_err">>]
             ELSE [err |-> "nil", proc |-> pr, pidfile |-> pidfile,
                   ev |-> <<"post_" \o po, "read_noent">>]
        ELSE IF sg # "nil"
        THEN IF sg # "ErrProcessDone"
             THEN [err |-> sg, proc |-> pr, pidfile |-> pidfile,
                   ev |-> <<"post_" \o po, "sig_err">>]
             ELSE [err |-> "nil", proc |-> pr,
                   pidfile |-> IF rm THEN NoPid ELSE pidfile,
                   ev |-> <<"post_" \o po, "sig_done">>]
        ELSE [err |-> "nil", proc |-> Stopping(pr, rd.pid), pidfile |-> pidfile,
              ev |-> <<"post_" \o po, "sig_sent">>]

killVfkit(po, rd, sg, rm) ==
    LET pr == IF po \in {"ok", "EOF"} THEN Stopping(proc, sock) ELSE proc
    IN  IF po = "ok"
        THEN [err |-> "nil", proc |-> pr, pidfile |-> pidfile, ev |-> <<"post_ok">>]
        ELSE IF rd.err # "nil"
        THEN IF rd.err # "ErrNotExist"
             THEN [err |-> rd.err, proc |-> pr, pidfile |-> pidfile,
                   ev |-> <<"post_" \o po, "read_err">>]
             ELSE [err |-> "nil", proc |-> pr, pidfile |-> pidfile,
                   ev |-> <<"post_" \o po, "read_noent">>]
        ELSE IF sg # "nil"
        THEN IF sg # "ErrProcessDone"
             THEN [err |-> sg, proc |-> pr, pidfile |-> pidfile,
                   ev |-> <<"post_" \o po, "sig_err">>]
             ELSE [err |-> "nil", proc |-> pr,
                   pidfile |-> IF rm THEN NoPid ELSE pidfile,
                   ev |-> <<"post_" \o po, "sig_done">>]
        ELSE [err |-> "nil", proc |-> Stopping(pr, rd.pid), pidfile |-> pidfile,
              ev |-> <<"post_" \o po, "sig_sent">>]

\* Every result of stopVfkit / killVfkit in the current state.
stopVfkitOutcomes ==
    UNION { UNION { { stopVfkit(po, rd, sg, rm) : sg \in Signal(rd.pid), rm \in BOOLEAN }
                    : rd \in ReadPidfile }
            : po \in Post }

killVfkitOutcomes ==
    UNION { UNION { { killVfkit(po, rd, sg, rm) : sg \in Signal(rd.pid), rm \in BOOLEAN }
                    : rd \in ReadPidfile }
            : po \in Post }

\* stopVmnetHelper / killVmnetHelper, given the outcome of Helper.Stop / Kill.
stopVmnetHelper(hr) ==
    IF ~VmnetHelper
    THEN [err |-> "nil", hpidfile |-> hpidfile, hproc |-> hproc, ev |-> <<>>]
    ELSE [err |-> hr.err, hpidfile |-> hr.hpidfile, hproc |-> hr.hproc,
          ev |-> <<IF hr.err = "nil" THEN "helper_ok" ELSE "helper_err">>]

killVmnetHelper(hr) ==
    IF ~VmnetHelper
    THEN [err |-> "nil", hpidfile |-> hpidfile, hproc |-> hproc, ev |-> <<>>]
    ELSE [err |-> hr.err, hpidfile |-> hr.hpidfile, hproc |-> hr.hproc,
          ev |-> <<IF hr.err = "nil" THEN "helper_ok" ELSE "helper_err">>]

\* Start going on to the next step whatever the step returned.
StartThenIgnoreError(e, next) == next

\* Start taking the helper's MAC address before looking at the error.
MACAfterHelperStartUnchecked(e) == IF e = "nil" THEN HelperMAC ELSE ""

\* Start: d.MACAddress after VmnetHelper.Start returned e.
MACAfterHelperStart(e) == IF e = "nil" THEN HelperMAC ELSE MACAddress

\* Start: a step's error is returned, otherwise the next step runs.
StartThen(e, next) == IF e # "nil" THEN "return" ELSE next

\* Stop returning right after stopVfkit.
StopThenSkipHelper(e) == "return"

\* Stop: stopVfkit's error is returned, otherwise stopVmnetHelper runs.
StopThen(e) == IF e # "nil" THEN "return" ELSE "stop_helper"

\* Kill: killVfkit's error is returned, otherwise killVmnetHelper runs.
KillThen(e) == IF e # "nil" THEN "return" ELSE "kill_helper"

\* Remove calling Kill whatever GetState reported.
RemoveThenKillAlways(st) == "kill_vfkit"

\* Remove: Kill is called when GetState reported st = Running.
RemoveThen(st) == IF st = "Running" THEN "kill_vfkit" ELSE "return"

\* generateDiskImage, given whether writing the tar archive, reading the
\* public key, os.WriteFile and os.Truncate succeed: the error returned and
\* the image left on disk.
generateDiskImage(ar, key, wr, tr) ==
    IF ~ar \/ ~key THEN [err |-> "err", disk |-> disk]
    ELSE IF ~wr THEN [err |-> "nil", disk |-> disk]
    ELSE IF ~tr THEN [err |-> "nil", disk |-> "archive"]
    ELSE [err |-> "nil", disk |-> "sized"]

(* ------------------------ what a caller observes ----------------------- *)

\* GetState result, hypervisor PID file presence, MAC address, IP address.
Observable == <<StateView, pidfile # NoPid, MACAddress, IPAddress>>

\* Stopped with nothing left over: no hypervisor PID file, nobody answering
\* on the control socket, helper absent or stopped with no PID file.
AlreadyStopped ==
    /\ pidfile = NoPid
    /\ ~IsVfkit(sock)
    /\ (VmnetHelper => (~hpidfile /\ ~HelperAlive))

\* The snapshot taken when method name is called: the state GetState would
\* report, whether the recorded hypervisor is running, whether the instance
\* is already stopped and, for a Stop or Kill of an already stopped instance,
\* what the caller can observe.
Snapshot(name) ==
    [state |-> StateView, hv |-> IsVfkit(pidfile), stopped |-> AlreadyStopped,
     view |-> IF AlreadyStopped /\ name \in {"Stop", "Kill"} THEN Observable ELSE <<>>]

NoPre == [state |-> "none", hv |-> FALSE, stopped |-> FALSE, view |-> <<>>]

\* Nothing observed by GetState in the current method.
NoObs == [hv |-> "none", hverr |-> "nil", hs |-> "none", st |-> "none",
          stale |-> FALSE, checked |-> FALSE, removed |-> FALSE]

\* What the method that has just returned was: a Stop of an instance whose
\* recorded hypervisor was running, that found the control channel refusing
\* the connection and returned success ("stop_fallback"); a successful Stop or
\* Kill of an already stopped instance ("idem"); a Start (called directly, by
\* Create or by Restart) that returned success ("start_ok") or the error of
\* setupIP ("start_noip"); anything else ("other").
Completed ==
    IF op = "Stop" /\ ret.err = "nil" /\ pre.hv /\ Len(trace) >= 2
       /\ trace[2] = "post_ECONNREFUSED"
    THEN "stop_fallback"
    ELSE IF op \in {"Stop", "Kill"} /\ ret.err = "nil" /\ pre.stopped
    THEN "idem"
    ELSE IF Len(trace) >= 1 /\ trace[1] = "Start" /\ ret.err = "nil"
    THEN "start_ok"
    ELSE IF Len(trace) >= 1 /\ trace[1] = "Start" /\ ret.err \in {"ip_hard", "ip_retry"}
    THEN "start_noip"
    ELSE "other"

(* ------------------------------- Init ---------------------------------- *)

\* NewDriver plus the configuration the caller fills in: the network mode
\* (VmnetHelper set for vmnet-shared, MACAddress set for nat).  Nothing has
\* been created or launched.
Init ==
    /\ VmnetHelper \in BOOLEAN
    /\ MACAddress = (IF VmnetHelper THEN "" ELSE NatMAC)
    /\ IPAddress = ""
    /\ SSHPort = 0
    /\ SSHUser = "docker"
    /\ pidfile = NoPid
    /\ proc = [p \in PIDs |-> "free"]
    /\ sock = NoPid
    /\ hpidfile = FALSE
    /\ hproc = "dead"
    /\ disk = "none"
    /\ created = FALSE
    /\ pc = "idle"
    /\ op = "none"
    /\ ret = [err |-> "nil", val |-> ""]
    /\ nestedVM = FALSE
    /\ multiplier = DefaultMultiplier
    /\ i = 0
    /\ err = "nil"
    /\ probes = 0
    /\ trace = <<>>
    /\ lookups = 0
    /\ firstOk = 0
    /\ sigOnly = TRUE
    /\ foundIP = ""
    /\ unblocks = 0
    /\ pre = NoPre
    /\ prev = "other"
    /\ oldAlive = {}
    /\ obs = NoObs

(* -------------------------- calls and returns -------------------------- *)

\* Start is issued on a Stopped instance, Create when no instance exists.
CanStart == created /\ StateView = "Stopped"
CanCreate == ~created

\* The caller calls method name.
Called(name) ==
    /\ pc = "idle"
    /\ op' = name
    /\ pre' = Snapshot(name)
    /\ prev' = (IF name \in {"Stop", "Kill", "GetState", "GetURL"} THEN prev ELSE "other")

\* The current method reaches position at.
Inside(at) ==
    /\ pc = at
    /\ UNCHANGED << op, pre, prev >>

\* The current method returns error e and value v.
Return(e, v) ==
    /\ pc' = "returned"
    /\ ret' = [err |-> e, val |-> v]

\* The caller has taken the result; the observation variables start afresh.
Resume ==
    /\ pc = "returned"
    /\ pc' = "idle"
    /\ prev' = Completed
    /\ op' = "none"
    /\ ret' = [err |-> "nil", val |-> ""]
    /\ trace' = <<>>
    /\ unblocks' = 0
    /\ pre' = NoPre
    /\ oldAlive' = {}
    /\ obs' = NoObs
    /\ UNCHANGED << driverVars, hostVars, created, ipVars >>

(* ----------------------------- GetState -------------------------------- *)

\* A GetState that forgets the IP address of an instance it finds stopped.
ApplyGetStateClearingIP(g) ==
    /\ pidfile' = g.pidfile
    /\ hpidfile' = g.hpidfile
    /\ obs' = [hv |-> g.hv, hverr |-> g.hverr, hs |-> g.hs, st |-> g.st,
               stale |-> g.stale, checked |-> g.checked, removed |-> g.removed]
    /\ IPAddress' = (IF g.st = "Stopped" THEN "" ELSE IPAddress)
    /\ UNCHANGED << MACAddress, SSHPort, SSHUser, VmnetHelper, proc, sock, hproc, disk,
                    created, ipVars, trace, unblocks, oldAlive >>

\* The state changes of one GetState run g.
ApplyGetState(g) ==
    /\ pidfile' = g.pidfile
    /\ hpidfile' = g.hpidfile
    /\ obs' = [hv |-> g.hv, hverr |-> g.hverr, hs |-> g.hs, st |-> g.st,
               stale |-> g.stale, checked |-> g.checked, removed |-> g.removed]
    /\ UNCHANGED << driverVars, proc, sock, hproc, disk, created, ipVars, trace, unblocks,
                    oldAlive >>

DoGetState ==
    /\ Called("GetState")
    /\ \E g \in GetStateOutcomes :
        /\ ApplyGetState(g)
        /\ Return(g.err, g.st)

(* ---------------------------- Stop and Kill ---------------------------- *)

\* Stop, first half: stopVfkit; its error is returned, otherwise on to the helper.
StopVfkit ==
    /\ (created /\ Called("Stop")) \/ Inside("stop_vfkit")
    /\ \E r \in stopVfkitOutcomes :
            /\ proc' = r.proc
            /\ pidfile' = r.pidfile
            /\ trace' = <<"Stop">> \o r.ev
            /\ IF StopThen(r.err) = "return"
               THEN Return(r.err, "")
               ELSE pc' = StopThen(r.err) /\ ret' = ret
    /\ obs' = NoObs
    /\ UNCHANGED << driverVars, sock, hpidfile, hproc, disk, created, ipVars, unblocks,
                    oldAlive >>

\* Stop, second half: stopVmnetHelper.  Inside Restart a successful Stop is
\* followed by Start.
StopHelper ==
    /\ pc = "stop_helper"
    /\ \E hr \in VmnetHelperSignal :
        LET r == stopVmnetHelper(hr)
        IN  /\ hpidfile' = r.hpidfile
            /\ hproc' = r.hproc
            /\ trace' = trace \o r.ev
            /\ IF op = "Restart" /\ r.err = "nil"
               THEN pc' = "start" /\ ret' = ret
               ELSE Return(r.err, "")
    /\ UNCHANGED << driverVars, pidfile, proc, sock, disk, created, op, ipVars, unblocks,
                    pre, prev, oldAlive, obs >>

\* Kill, first half: killVfkit.
KillVfkit ==
    /\ (created /\ Called("Kill")) \/ Inside("kill_vfkit")
    /\ \E r \in killVfkitOutcomes :
            /\ proc' = r.proc
            /\ pidfile' = r.pidfile
            /\ trace' = <<"Kill">> \o r.ev
            /\ IF KillThen(r.err) = "return"
               THEN Return(r.err, "")
               ELSE pc' = KillThen(r.err) /\ ret' = ret
    /\ obs' = NoObs
    /\ UNCHANGED << driverVars, sock, hpidfile, hproc, disk, created, ipVars, unblocks,
                    oldAlive >>

\* Kill, second half: killVmnetHelper.
KillHelper ==
    /\ pc = "kill_helper"
    /\ \E hr \in VmnetHelperSignal :
        LET r == killVmnetHelper(hr)
        IN  /\ hpidfile' = r.hpidfile
            /\ hproc' = r.hproc
            /\ trace' = trace \o r.ev
            /\ Return(r.err, "")
    /\ UNCHANGED << driverVars, pidfile, proc, sock, disk, created, op, ipVars, unblocks,
                    pre, prev, oldAlive, obs >>

(* ------------------------- Restart and Remove -------------------------- *)

\* Restart: GetState; an error is returned; Running leads to Stop, anything
\* else straight to Start.
Restart ==
    /\ created
    /\ Called("Restart")
    /\ \E g \in GetStateOutcomes :
        /\ ApplyGetState(g)
        /\ IF g.err # "nil" THEN Return(g.err, "")
           ELSE IF g.st = "Running" THEN pc' = "stop_vfkit" /\ ret' = ret
           ELSE pc' = "start" /\ ret' = ret

\* Remove: GetState; an error is returned; Running leads to Kill.
Remove ==
    /\ created
    /\ Called("Remove")
    /\ \E g \in GetStateOutcomes :
        /\ ApplyGetState(g)
        /\ IF g.err # "nil" THEN Return(g.err, "")
           ELSE IF RemoveThen(g.st) = "return" THEN Return("nil", "")
           ELSE pc' = RemoveThen(g.st) /\ ret' = ret

(* ------------------------------- Start --------------------------------- *)

\* Start, first step: with a helper, start it and take its MAC address.
StartHelper ==
    /\ (CanStart /\ Called("Start")) \/ Inside("start")
    /\ IF VmnetHelper
       THEN \E r \in VmnetHelperStart :
            /\ hpidfile' = r.hpidfile
            /\ hproc' = r.hproc
            /\ MACAddress' = MACAfterHelperStart(r.err)
            /\ trace' = <<"Start", "helper", IF r.err = "nil" THEN "helper_ok" ELSE "helper_err">>
            /\ IF StartThen(r.err, "start_vfkit") = "return"
               THEN Return(r.err, "")
               ELSE pc' = StartThen(r.err, "start_vfkit") /\ ret' = ret
       ELSE /\ trace' = <<"Start">>
            /\ pc' = "start_vfkit"
            /\ UNCHANGED << hpidfile, hproc, MACAddress, ret >>
    /\ obs' = NoObs
    /\ UNCHANGED << IPAddress, SSHPort, SSHUser, VmnetHelper, pidfile, proc, sock, disk,
                    created, ipVars, unblocks, oldAlive >>

\* startVfkit: the socket file is removed, the log file opened, the process
\* started in its own process group and its pid written to the PID file.
StartVfkit ==
    /\ pc = "start_vfkit"
    /\ \E lg \in BOOLEAN : \E wr \in BOOLEAN : \E p \in PIDs \cup {NoPid} :
        /\ p # NoPid => proc[p] = "free"
        /\ LET e == IF ~lg THEN "logfile" ELSE IF p = NoPid THEN "exec"
                    ELSE IF ~wr THEN "pidfile" ELSE "nil"
               launched == lg /\ p # NoPid
           IN  /\ proc' = (IF launched THEN [proc EXCEPT ![p] = "vfkit"] ELSE proc)
               /\ sock' = (IF launched THEN p ELSE NoPid)
               /\ pidfile' = (IF launched /\ wr THEN p ELSE pidfile)
               /\ oldAlive' = (IF launched THEN AliveVfkit ELSE oldAlive)
               /\ trace' = trace \o <<"vfkit", IF e = "nil" THEN "vfkit_ok" ELSE "vfkit_err">>
               /\ IF StartThen(e, "setup_ip") = "return"
                  THEN Return(e, "")
                  ELSE pc' = StartThen(e, "setup_ip") /\ ret' = ret
    /\ UNCHANGED << driverVars, hpidfile, hproc, disk, created, op, ipVars, unblocks, pre,
                    prev, obs >>

\* setupIP undoing the launch when it fails: the hypervisor it waited for is
\* told to stop and its PID file is removed.
AfterLoopWithRollback(e) ==
    IF e = "nil"
    THEN /\ trace' = trace \o <<"ip", "ip_ok">>
         /\ unblocks' = unblocks
         /\ UNCHANGED hostVars
         /\ IF StartThen("nil", "wait_ssh") = "return"
            THEN Return("nil", "")
            ELSE pc' = StartThen("nil", "wait_ssh") /\ ret' = ret
    ELSE IF ~isBootpdError(e)
    THEN /\ trace' = trace \o <<"ip", "ip_err">>
         /\ unblocks' = unblocks
         /\ proc' = Stopping(proc, pidfile) /\ pidfile' = NoPid
         /\ UNCHANGED << sock, hpidfile, hproc, disk >>
         /\ IF StartThen("ip_hard", "wait_ssh") = "return"
            THEN Return("ip_hard", "")
            ELSE pc' = StartThen("ip_hard", "wait_ssh") /\ ret' = ret
    ELSE \E unblocked \in BOOLEAN :
         /\ trace' = trace \o <<"ip", "ip_err">>
         /\ unblocks' = unblocks + 1
         /\ proc' = Stopping(proc, pidfile) /\ pidfile' = NoPid
         /\ UNCHANGED << sock, hpidfile, hproc, disk >>
         /\ IF ~unblocked
            THEN pc' = "exited" /\ ret' = [err |-> "exit", val |-> ""]
            ELSE IF StartThen("ip_retry", "wait_ssh") = "return"
            THEN Return("ip_retry", "")
            ELSE pc' = StartThen("ip_retry", "wait_ssh") /\ ret' = ret

\* setupIP after the loop, with e the value of err: success, the hard error,
\* or the firewall branch, where a failing unblock ends the whole program
\* (exit.Error).  Nothing on the host is touched.
AfterLoop(e) ==
    IF e = "nil"
    THEN /\ trace' = trace \o <<"ip", "ip_ok">>
         /\ unblocks' = unblocks
         /\ UNCHANGED hostVars
         /\ IF StartThen("nil", "wait_ssh") = "return"
            THEN Return("nil", "")
            ELSE pc' = StartThen("nil", "wait_ssh") /\ ret' = ret
    ELSE IF ~isBootpdError(e)
    THEN /\ trace' = trace \o <<"ip", "ip_err">>
         /\ unblocks' = unblocks
         /\ UNCHANGED hostVars
         /\ IF StartThen("ip_hard", "wait_ssh") = "return"
            THEN Return("ip_hard", "")
            ELSE pc' = StartThen("ip_hard", "wait_ssh") /\ ret' = ret
    ELSE \E unblocked \in BOOLEAN :
         /\ trace' = trace \o <<"ip", "ip_err">>
         /\ unblocks' = unblocks + 1
         /\ UNCHANGED hostVars
         /\ IF ~unblocked
            THEN pc' = "exited" /\ ret' = [err |-> "exit", val |-> ""]
            ELSE IF StartThen("ip_retry", "wait_ssh") = "return"
            THEN Return("ip_retry", "")
            ELSE pc' = StartThen("ip_retry", "wait_ssh") /\ ret' = ret

\* setupIP as one step of Start: the retry loop run to its exit under either
\* answer of detect.NestedVM(), then the code after the loop.
SetupIP ==
    /\ pc = "setup_ip"
    /\ \E nested \in BOOLEAN : \E x \in setupIPExits(Multiplier(nested)) :
        /\ IPAddress' = x.ip
        /\ foundIP' = (IF x.err = "nil" THEN x.ip ELSE "")
        /\ AfterLoop(x.err)
    /\ UNCHANGED << MACAddress, SSHPort, SSHUser, VmnetHelper, created, op,
                    nestedVM, multiplier, i, err, probes, lookups, firstOk, sigOnly, pre, prev,
                    oldAlive, obs >>

\* WaitForTCPWithDelay, one probe: dial the SSH port and read one byte; the
\* loop ends only when the dial succeeds and the read returns data or EOF.
WaitForTCPWithDelay ==
    /\ pc = "wait_ssh"
    /\ \E dial \in BOOLEAN : \E rd \in {"data", "EOF", "err"} :
        IF dial /\ rd # "err"
        THEN /\ trace' = (IF trace[Len(trace)] = "ip_ok" THEN trace \o <<"ssh", "ssh_ok">>
                          ELSE trace \o <<"ssh_ok">>)
             /\ probes' = 0
             /\ Return("nil", "")
        ELSE /\ trace' = (IF trace[Len(trace)] = "ip_ok" THEN trace \o <<"ssh">> ELSE trace)
             /\ probes' = (probes + 1) % 2
             /\ UNCHANGED << pc, ret >>
    /\ UNCHANGED << driverVars, hostVars, created, op, nestedVM, multiplier, i, err, lookups,
                    firstOk, foundIP, sigOnly, unblocks, pre, prev, oldAlive, obs >>

(* ------------------------------- Create -------------------------------- *)

\* Create up to its call of Start: the SSH port, the ISO copy, the kernel
\* extraction, the SSH key, the disk image and the extra disks, each of which
\* can fail and end Create.
Create ==
    /\ CanCreate
    /\ Called("Create")
    /\ created' = TRUE
    /\ SSHPort' = (IF SSHPort = 0 THEN DefaultSSHPort ELSE SSHPort)
    /\ \E iso \in BOOLEAN : \E kernel \in BOOLEAN : \E sshkey \in BOOLEAN :
       \E ar \in BOOLEAN : \E key \in BOOLEAN : \E wr \in BOOLEAN : \E tr \in BOOLEAN :
       \E extra \in BOOLEAN :
        LET g == generateDiskImage(ar, key, wr, tr)
            e == IF ~iso THEN "iso" ELSE IF ~kernel THEN "kernel"
                 ELSE IF ~sshkey THEN "sshkey" ELSE IF g.err # "nil" THEN g.err
                 ELSE IF ~extra THEN "extradisk" ELSE "nil"
        IN  /\ disk' = (IF iso /\ kernel /\ sshkey THEN g.disk ELSE disk)
            /\ IF e # "nil" THEN Return(e, "") ELSE pc' = "start" /\ ret' = ret
    /\ UNCHANGED << MACAddress, IPAddress, SSHUser, VmnetHelper, pidfile, proc, sock,
                    hpidfile, hproc, ipVars, trace, unblocks, oldAlive, obs >>

(* ------------------------------- getters ------------------------------- *)

\* A method that runs to completion in one step and returns v.
Getter(name, v) ==
    /\ Called(name)
    /\ Return("nil", v)
    /\ UNCHANGED << MACAddress, IPAddress, VmnetHelper, hostVars, created, ipVars, trace,
                    unblocks, oldAlive, obs >>

GetIP == Getter("GetIP", IPAddress) /\ UNCHANGED << SSHPort, SSHUser >>

GetSSHHostname == Getter("GetSSHHostname", IPAddress) /\ UNCHANGED << SSHPort, SSHUser >>

DoGetURL == Getter("GetURL", GetURL(IPAddress)) /\ UNCHANGED << SSHPort, SSHUser >>

GetSSHPort ==
    /\ SSHPort' = (IF SSHPort = 0 THEN DefaultSSHPort ELSE SSHPort)
    /\ Getter("GetSSHPort", "port")
    /\ UNCHANGED SSHUser

GetSSHUsername ==
    /\ SSHUser' = (IF SSHUser = "" THEN "docker" ELSE SSHUser)
    /\ Getter("GetSSHUsername", SSHUser')
    /\ UNCHANGED SSHPort

(* --------------------- the processes and the host ---------------------- *)

\* A vfkit process exits: after a stop request or a signal, or by itself.
VfkitExit(p) ==
    /\ pc # "returned"
    /\ IsVfkit(p)
    /\ proc' = [proc EXCEPT ![p] = "free"]
    /\ sock' = (IF sock = p THEN NoPid ELSE sock)
    /\ UNCHANGED << driverVars, pidfile, hpidfile, hproc, disk, created, pc, op, ret, ipVars,
                    histVars >>

\* The host gives the pid recorded in the PID file, once free, to some other
\* program; such a program exits.
PidReuse(p) ==
    /\ pc # "returned"
    /\ (proc[p] = "free" /\ p = pidfile) \/ proc[p] = "other"
    /\ proc' = [proc EXCEPT ![p] = IF proc[p] = "free" THEN "other" ELSE "free"]
    /\ UNCHANGED << driverVars, pidfile, sock, hpidfile, hproc, disk, created, pc, op, ret,
                    ipVars, histVars >>

\* The vmnet-helper process exits.
HelperExit ==
    /\ pc # "returned"
    /\ HelperAlive
    /\ hproc' = "dead"
    /\ UNCHANGED << driverVars, pidfile, proc, sock, hpidfile, disk, created, pc, op, ret,
                    ipVars, histVars >>

(* ---------------------------- specification ---------------------------- *)

Next ==
    \/ Create
    \/ StartHelper \/ StartVfkit \/ SetupIP \/ WaitForTCPWithDelay
    \/ StopVfkit \/ StopHelper
    \/ KillVfkit \/ KillHelper
    \/ Restart
    \/ Remove
    \/ DoGetState
    \/ GetIP \/ GetSSHHostname \/ DoGetURL \/ GetSSHPort \/ GetSSHUsername
    \/ Resume
    \/ \E p \in PIDs : VfkitExit(p)
    \/ \E p \in PIDs : PidReuse(p)
    \/ HelperExit

Spec == Init /\ [][Next]_vars

(* ------------------ setupIP with its loop run step by step ------------- *)

\* One iteration of the retry loop: a lease lookup for the MAC address.
SetupIPAttempt ==
    /\ pc = "setup_ip"
    /\ i < Budget(multiplier)
    /\ \E r \in GetIPAddressByMACAddress :
        /\ IPAddress' = r.ip
        /\ err' = r.err
        /\ lookups' = lookups + 1
        /\ firstOk' = (IF r.err = "nil" /\ firstOk = 0 THEN lookups + 1 ELSE firstOk)
        /\ foundIP' = (IF r.err = "nil" /\ firstOk = 0 THEN r.ip ELSE foundIP)
        /\ sigOnly' = (sigOnly /\ r.err = "bootpd")
        /\ IF AfterAttempt(r.err) = "break"
           THEN pc' = "setup_ip_done" /\ i' = i
           ELSE pc' = "setup_ip" /\ i' = i + 1
    /\ UNCHANGED << MACAddress, SSHPort, SSHUser, VmnetHelper, hostVars, created, op, ret,
                    nestedVM, multiplier, probes, histVars >>

\* The loop has been left, by break or by its test: the code after the loop.
SetupIPDone ==
    /\ pc = "setup_ip_done" \/ (pc = "setup_ip" /\ ~(i < Budget(multiplier)))
    /\ AfterLoop(err)
    /\ UNCHANGED << driverVars, created, op, ipVars, pre, prev, oldAlive, obs >>

\* Start has launched the hypervisor (pid 1) and, for vmnet-shared, the
\* helper, and has entered setupIP, which has set its multiplier.
InitIP ==
    /\ VmnetHelper \in BOOLEAN
    /\ MACAddress = (IF VmnetHelper THEN HelperMAC ELSE NatMAC)
    /\ IPAddress \in {""} \cup IPs
    /\ SSHPort = DefaultSSHPort
    /\ SSHUser = "docker"
    /\ pidfile = 1
    /\ proc = [p \in PIDs |-> IF p = 1 THEN "vfkit" ELSE "free"]
    /\ sock = 1
    /\ hpidfile = VmnetHelper
    /\ hproc = (IF VmnetHelper THEN "running" ELSE "dead")
    /\ disk = "sized"
    /\ created = TRUE
    /\ pc = "setup_ip"
    /\ op = "Start"
    /\ ret = [err |-> "nil", val |-> ""]
    /\ nestedVM \in BOOLEAN
    /\ multiplier = Multiplier(nestedVM)
    /\ i = 0
    /\ err = "nil"
    /\ probes = 0
    /\ trace = (IF VmnetHelper THEN <<"Start", "helper", "helper_ok", "vfkit", "vfkit_ok">>
                ELSE <<"Start", "vfkit", "vfkit_ok">>)
    /\ lookups = 0
    /\ firstOk = 0
    /\ sigOnly = TRUE
    /\ foundIP = ""
    /\ unblocks = 0
    /\ pre = [state |-> "Stopped", hv |-> FALSE, stopped |-> FALSE, view |-> <<>>]
    /\ prev = "other"
    /\ oldAlive = {}
    /\ obs = NoObs

NextIP == SetupIPAttempt \/ SetupIPDone \/ WaitForTCPWithDelay

SpecIP == InitIP /\ [][NextIP]_vars

\* The same under the only scheduling assumption the code supports: the
\* goroutine running Start is not suspended for ever, so the statement it has
\* reached is eventually executed.
SpecIPFair == SpecIP /\ WF_vars(NextIP)

(* ------------------------------ properties ----------------------------- *)

\* The steps of a complete Start, and the same steps with each result failed.
StartSteps ==
    (IF VmnetHelper THEN <<"Start", "helper", "helper_ok">> ELSE <<"Start">>)
        \o <<"vfkit", "vfkit_ok", "ip", "ip_ok", "ssh", "ssh_ok">>

StartStepsFailed ==
    (IF VmnetHelper THEN <<"Start", "helper", "helper_err">> ELSE <<"Start">>)
        \o <<"vfkit", "vfkit_err", "ip", "ip_err", "ssh", "ssh_err">>

\* The trace is that of the Stop / Kill body, of the Start body.
InStopKill == Len(trace) >= 1 /\ trace[1] \in {"Stop", "Kill"}
InStart == Len(trace) >= 1 /\ trace[1] = "Start"

HelperEvents == {"helper_ok", "helper_err"}

\* The hypervisor step of the traced Stop / Kill has succeeded: by the
\* control channel or by the PID-based path.
HvStepOk ==
    /\ InStopKill
    /\ Len(trace) >= 2
    /\ \/ trace[2] = "post_ok"
       \/ Len(trace) >= 3 /\ trace[3] \in {"read_noent", "sig_done", "sig_sent"}

\* The traced Stop / Kill has returned the error of its hypervisor step.
HvStepFailed ==
    /\ InStopKill
    /\ pc = "returned"
    /\ ret.err # "nil"
    /\ trace[Len(trace)] \notin HelperEvents

\* C1: Stop and Kill are idempotent: called on an already stopped instance (no
\* hypervisor PID file, control channel not answering, helper absent or
\* stopped), whatever was called before, they return success and leave the
\* GetState result, the PID file presence, the MAC and the IP address as
\* they were.
C1_StopKillIdempotent ==
    (pc = "returned" /\ op \in {"Stop", "Kill"} /\ pre.stopped)
        => (ret.err = "nil" /\ Observable = pre.view)

\* A Kill of an already stopped instance with a helper has returned, right
\* after another Stop or Kill of the already stopped instance.
C1_Witness ==
    /\ pc = "returned" /\ op = "Kill" /\ pre.stopped
    /\ prev = "idem" /\ VmnetHelper /\ MACAddress = HelperMAC

\* C2 (as stated): after a Stop of a Running instance that found the control
\* channel refusing the connection and returned success, GetState returns
\* Stopped.
C2_StoppedRightAfterStop ==
    (pc = "returned" /\ op = "GetState" /\ prev = "stop_fallback")
        => (ret.err = "nil" /\ ret.val = "Stopped")

\* C2 (amended): a Stop of a Running instance that finds the control channel
\* refusing the connection sends the graceful terminate to the recorded
\* hypervisor pid and goes on without waiting for the process to exit; the
\* GetState that follows a successful such Stop returns, unless the query
\* fails, Stopped exactly when the hypervisor has exited and the helper is
\* not running, and Running otherwise.
C2_StopFallsBackToTerminate ==
    /\ (/\ op = "Stop" /\ pre.hv
        /\ Len(trace) >= 2 /\ trace[2] = "post_ECONNREFUSED"
        /\ pc = "stop_helper" \/ (pc = "returned" /\ ret.err = "nil"))
        => (/\ Len(trace) >= 3 /\ trace[3] = "sig_sent"
            /\ pidfile # NoPid /\ proc[pidfile] # "vfkit")
    /\ (pc = "returned" /\ op = "GetState" /\ prev = "stop_fallback" /\ ret.err = "nil")
        => (/\ ret.val = pre.state
            /\ ret.val = "Stopped" <=> (~IsVfkit(pidfile) /\ ~(VmnetHelper /\ HelperAlive)))

\* GetState has returned Stopped after such a Stop.
C2_Witness ==
    /\ pc = "returned" /\ op = "GetState" /\ prev = "stop_fallback"
    /\ ret.err = "nil" /\ ret.val = "Stopped"

\* C3 (as stated): if the hypervisor query or the helper reports Running,
\* GetState returns Running; if the hypervisor is not Running, GetState
\* returns exactly the state the helper reports.
C3_RunningDominates ==
    obs.st # "none"
        => (/\ (obs.hv = "Running" \/ obs.hs = "Running") => obs.st = "Running"
            /\ obs.hv # "Running" => obs.st = obs.hs)

\* C3 (amended): when the hypervisor query fails GetState returns Error
\* whatever the helper reports; when it reports Running GetState returns
\* Running; when it reports Stopped GetState returns exactly the state the
\* helper reports, so that a running helper gives Running.
C3_RunningDominatesUnlessError ==
    obs.st # "none"
        => IF obs.hverr # "nil" THEN obs.hv = "Error" /\ obs.st = "Error"
           ELSE IF obs.hv = "Running" THEN obs.st = "Running"
           ELSE obs.hv = "Stopped" /\ obs.st = obs.hs

\* GetState has returned Running for a stopped hypervisor with a running helper.
C3_Witness ==
    /\ pc = "returned" /\ op = "GetState"
    /\ obs.hv = "Stopped" /\ obs.hs = "Running" /\ ret.val = "Running"

\* C4: a GetState (called directly or by Restart or Remove) that starts with
\* neither the hypervisor PID file nor the helper PID file present does not
\* return Running, with or without a helper configured.
C4_NoPidFilesNotRunning ==
    [][(/\ pc = "idle" /\ op' \in {"GetState", "Restart", "Remove"}
        /\ pidfile = NoPid /\ ~hpidfile)
           => (obs'.st \in {"Stopped", "Error"})]_vars

\* GetState has returned Stopped on an instance without PID files that has
\* been created and started before (its MAC or IP address is set).
C4_Witness ==
    /\ pc = "returned" /\ op = "GetState" /\ pre.stopped
    /\ ret.val = "Stopped" /\ IPAddress # "" /\ obs.st = "Stopped"

\* C5 (as stated): a GetState that finds a stale hypervisor PID file (present,
\* its pid not a live vfkit process) has removed the file when it returns and
\* reports the hypervisor Stopped.
C5_StaleAlwaysRemoved ==
    (pc = "returned" /\ op = "GetState" /\ obs.stale)
        => (pidfile = NoPid /\ obs.hv = "Stopped")

\* C5 (amended): a GetState that finds a stale hypervisor PID file never
\* reports the hypervisor Running.  When the file is read and the liveness
\* check answers, it reports Stopped and removes the file, unless the removal
\* itself fails, which leaves the file in place; when the read or the liveness
\* check fails it reports Error and leaves the file in place.
C5_StaleRemovedWhenChecked ==
    (pc = "returned" /\ op = "GetState" /\ obs.stale)
        => IF obs.checked
           THEN /\ obs.hv = "Stopped" /\ obs.hverr = "nil"
                /\ pidfile = NoPid <=> obs.removed
           ELSE /\ obs.hv = "Error" /\ ret.err # "nil" /\ ret.val = "Error"
                /\ pidfile # NoPid

\* GetState has removed a stale PID file and reported Stopped.
C5_Witness ==
    /\ pc = "returned" /\ op = "GetState" /\ obs.stale /\ obs.checked
    /\ obs.removed /\ pidfile = NoPid /\ ret.val = "Stopped"

\* C6: in Stop and Kill a failed control-channel request is always followed
\* by the PID-based path, and the hypervisor step returns an error only when
\* the request failed and the PID-based path failed too (the PID file could
\* not be read though present, or the signal failed though the process is
\* there); the error returned is that of the PID-based path.
C6_ChannelFailureRecovered ==
    /\ (InStopKill /\ Len(trace) >= 2 /\ trace[2] # "post_ok")
        => (/\ Len(trace) >= 3
            /\ trace[3] \in {"read_err", "read_noent", "sig_err", "sig_done", "sig_sent"})
    /\ HvStepFailed
        => (/\ Len(trace) = 3
            /\ trace[2] \in {"post_EOF", "post_ECONNREFUSED"}
            /\ \/ trace[3] = "read_err" /\ ret.err = "EIO"
               \/ trace[3] = "sig_err" /\ ret.err = "EPERM")

\* Kill has returned success after the control channel failed and the
\* PID-based kill went out.
C6_Witness ==
    /\ pc = "returned" /\ op = "Kill" /\ ret.err = "nil"
    /\ Len(trace) >= 3 /\ trace[2] = "post_EOF" /\ trace[3] = "sig_sent"

C8_HypervisorBeforeHelper ==
    InStopKill
        => (/\ \A k \in 1..Len(trace) :
                trace[k] \in HelperEvents => (k = Len(trace) /\ k >= 3 /\ HvStepOk)
            /\ pc \in {"stop_helper", "kill_helper"} => (HvStepOk /\ trace[Len(trace)] \notin HelperEvents)
            /\ (pc \in {"returned", "start"} /\ HvStepOk /\ VmnetHelper)
                => trace[Len(trace)] \in HelperEvents)

\* Stop has returned success after the PID-based terminate and the stop of
\* the helper.
C8_Witness ==
    /\ pc = "returned" /\ op = "Stop" /\ ret.err = "nil" /\ VmnetHelper
    /\ trace = <<"Stop", "post_ECONNREFUSED", "sig_sent", "helper_ok">>

\* C9: when Restart, called with the recorded hypervisor running, launches
\* the new hypervisor process, no earlier hypervisor process is alive.
C9_RestartLaunchesAfterExit ==
    (op = "Restart" /\ pre.hv) => oldAlive = {}

\* C10: setupIP gives up after exactly 60 x multiplier lookups, the
\* multiplier being 3 under a nested VM and 1 otherwise; when a lookup first
\* succeeds on attempt k, k is within that budget, setupIP succeeds with the
\* address of that lookup and makes no lookup after the k-th.
C10_RetryBudget ==
    /\ multiplier = (IF nestedVM THEN 3 ELSE 1)
    /\ lookups <= 60 * multiplier
    /\ (pc = "setup_ip" /\ firstOk = 0) => lookups = i
    /\ ((pc = "setup_ip" /\ ~(i < Budget(multiplier))) \/ (pc \in {"returned", "exited"} /\ ret.err # "nil"))
        => (lookups = 60 * multiplier /\ firstOk = 0)
    /\ firstOk # 0
        => (/\ pc \in {"setup_ip_done", "wait_ssh", "returned"}
            /\ ret.err = "nil"
            /\ lookups = firstOk
            /\ IPAddress = foundIP /\ foundIP \in IPs)
    /\ pc \in {"setup_ip_done", "wait_ssh"} => firstOk # 0

\* Under a nested VM setupIP has succeeded on attempt 61, beyond the budget
\* of the other case.
C10_Witness ==
    /\ pc = "wait_ssh" /\ nestedVM /\ firstOk = 61 /\ lookups = 61 /\ IPAddress = foundIP

\* C11 as stated: when every lease lookup of a Start fails with the bootpd
\* signature, firewall.UnblockBootpd is called exactly once and Start returns
\* the retryable "ip not found" error to its caller.
C11_UnblockOnceThenRetryable ==
    (pc \in {"returned", "exited"} /\ sigOnly /\ lookups = 60 * multiplier)
        => (unblocks = 1 /\ pc = "returned" /\ ret.err = "ip_retry")

\* C11: when every lease lookup of a Start fails with the bootpd signature,
\* firewall.UnblockBootpd is called exactly once, after the last lookup, and
\* Start does not succeed: it returns the retryable "ip not found" error when
\* the unblock succeeded, and the program exits inside setupIP, Start never
\* returning, when the unblock failed.
C11_UnblockOnceThenRetryOrExit ==
    /\ (pc = "setup_ip" /\ sigOnly) => unblocks = 0
    /\ (pc \in {"returned", "exited"} /\ sigOnly /\ lookups = 60 * multiplier)
        => (/\ unblocks = 1
            /\ pc = "returned" => ret.err = "ip_retry"
            /\ pc = "exited" => ret.err = "exit")
    /\ sigOnly => pc \in {"setup_ip", "returned", "exited"}

\* All 180 lookups under a nested VM failed with the signature, the unblock
\* was made once and Start returned the retryable error.
C11_Witness ==
    /\ pc = "returned" /\ sigOnly /\ nestedVM /\ lookups = 180
    /\ unblocks = 1 /\ ret.err = "ip_retry"

\* C12: firewall.UnblockBootpd is called at most once per setupIP, and only
\* after all 60 x multiplier lookups failed and the last one failed with the
\* bootpd signature; it is never called when a lookup succeeded; and when the
\* last error lacks the signature Start returns the hard error without any
\* unblock call.
C12_UnblockNeverSpeculative ==
    /\ unblocks <= 1
    /\ unblocks = 1
        => (/\ lookups = 60 * multiplier /\ firstOk = 0 /\ err = "bootpd"
            /\ pc \in {"returned", "exited"}
            /\ ret.err \in {"ip_retry", "exit"})
    /\ firstOk # 0 => unblocks = 0
    /\ (pc \in {"returned", "exited"} /\ firstOk = 0 /\ err # "bootpd")
        => (unblocks = 0 /\ pc = "returned" /\ ret.err = "ip_hard")

\* Some lookups failed with the signature, the last one of the budget failed
\* without it: the hard error, no unblock.
C12_Witness ==
    /\ pc = "returned" /\ ret.err = "ip_hard" /\ unblocks = 0
    /\ lookups = 60 /\ ~sigOnly /\ err = "other" /\ firstOk = 0

\* C13: Remove calls Kill exactly when its GetState reported Running.  The
\* GetState of Remove sends nothing on the control channel and terminates no
\* process; when it reports Stopped, Remove returns success at once; when it
\* reports Running the next step of Remove is Kill, and Remove returns
\* success only if both halves of Kill succeeded, the error of Kill otherwise.
C13_RemoveKillsIffRunning ==
    [][/\ (pc = "idle" /\ op' = "Remove")
           => (/\ proc' = proc /\ sock' = sock /\ hproc' = hproc
               /\ trace' = <<>>
               /\ pc' \in {"kill_vfkit", "returned"}
               /\ pc' = "kill_vfkit" <=> obs'.st = "Running"
               /\ obs'.st = "Stopped" => (pc' = "returned" /\ ret'.err = "nil")
               /\ (pc' = "returned" /\ ret'.err = "nil") => obs'.st = "Stopped")
       /\ (op = "Remove" /\ pc = "kill_vfkit" /\ pc' # pc)
           => (/\ trace'[1] = "Kill" /\ Len(trace') >= 2
               /\ pc' \in {"kill_helper", "returned"}
               /\ pc' = "returned" => (ret'.err # "nil" /\ HvStepFailed')
               /\ pc' = "kill_helper" => HvStepOk')
       /\ (op = "Remove" /\ pc = "kill_helper" /\ pc' # pc)
           => (/\ pc' = "returned"
               /\ ret'.err = "nil" <=> trace'[Len(trace')] # "helper_err")
      ]_vars

\* Remove found the instance Running and Kill failed: Remove has returned
\* the error of the PID-based kill.
C13_Witness ==
    /\ op = "Remove" /\ pc = "returned" /\ ret.err = "EPERM"
    /\ trace = <<"Kill", "post_ECONNREFUSED", "sig_err">>

\* C14: a failing step of the disk image's construction makes Create return
\* an error without calling Start, so Create reaches Start only with the
\* disk image written and truncated to its size.
C14_DiskImageReadyAtStart ==
    (op = "Create" /\ pc = "start") => disk = "sized"

\* C15: Start always terminates: setupIP's loop and the SSH wait are both
\* bounded, so Start eventually returns (or ends the program) even when no
\* lease appears or nothing answers on the SSH port.
C15_StartTerminates ==
    <>(pc \in {"returned", "exited"})

\* The call that has returned directly follows a Start (called by the
\* caller, by Create or by Restart) that returned success in nat mode, and
\* the hypervisor recorded by that Start is alive.
AfterStartOkNat(name) ==
    /\ pc = "returned" /\ op = name /\ prev = "start_ok"
    /\ ~VmnetHelper /\ IsVfkit(pidfile)

\* C16 as stated: after a successful Create / Start in nat mode, while the
\* hypervisor is alive, GetState returns Running and GetURL returns
\* tcp://<ip>:2376 with the address setupIP found in that Start; GetURL
\* returns "" whenever the hypervisor PID file is absent.
C16_RunningAndURLAfterStart ==
    /\ AfterStartOkNat("GetState") => (ret.err = "nil" /\ ret.val = "Running")
    /\ AfterStartOkNat("GetURL")
        => (foundIP \in IPs /\ ret.val = "tcp://" \o foundIP \o ":2376")
    /\ (pc = "returned" /\ op = "GetURL" /\ pidfile = NoPid) => ret.val = ""

\* C16: after a successful Create / Start in nat mode, while the hypervisor
\* is alive, GetState returns Running unless reading the PID file or the
\* liveness check fails, in which case it returns Error with that error, and
\* GetURL returns tcp://<ip>:2376 with the address setupIP found in that
\* Start; GetURL returns "" whenever the hypervisor PID file is absent.
C16_RunningUnlessQueryFails ==
    /\ AfterStartOkNat("GetState")
        => (/\ ret.val \in {"Running", "Error"}
            /\ ret.val = "Running" <=> ret.err = "nil"
            /\ ret.val = "Error" => (obs.hverr # "nil" /\ ret.err = obs.hverr))
    /\ AfterStartOkNat("GetURL")
        => (foundIP \in IPs /\ ret.val = "tcp://" \o foundIP \o ":2376")
    /\ (pc = "returned" /\ op = "GetURL" /\ pidfile = NoPid) => ret.val = ""

\* GetURL, called right after a successful Create in nat mode, has returned
\* the URL of the address found.
C16_Witness ==
    /\ AfterStartOkNat("GetURL") /\ foundIP = "ip2" /\ ret.val = "tcp://ip2:2376"
    /\ IPAddress = "ip2"

ReadOnlyCall ==
    /\ pc = "idle"
    /\ \/ op' \in {"GetState", "GetURL", "GetIP", "GetSSHHostname", "GetSSHPort",
                    "GetSSHUsername"}
       \/ op' = "Remove" /\ pc' = "returned" /\ obs'.st = "Stopped"

\* C18 as stated: the driver's record (MAC address, IP address, SSH port and
\* user, network configuration) is changed only by Create, Start, Stop and
\* Kill (and by Restart, which runs Stop and Start); GetState, GetURL, GetIP,
\* GetSSHHostname, GetSSHPort, GetSSHUsername and Remove of a Stopped
\* instance leave every field as it was.
C18_OnlyLifecycleMutates ==
    [][/\ ReadOnlyCall => driverVars' = driverVars
       /\ driverVars' # driverVars => op' \in {"Create", "Start", "Stop", "Kill", "Restart"}
      ]_vars

\* C18: the driver's record is changed only by Create and Start (also when
\* run by Restart), and by the two getters with a lazy default: GetSSHPort
\* stores 22 when the port is 0 and GetSSHUsername stores "docker" when the
\* user is empty.  GetState, GetURL, GetIP, GetSSHHostname, Remove of a
\* Stopped instance, Stop and Kill leave every field as it was, and the two
\* getters leave every other field as it was.
C18_OnlyLifecycleAndLazyDefaults ==
    [][/\ ReadOnlyCall
           => (/\ MACAddress' = MACAddress /\ IPAddress' = IPAddress
               /\ VmnetHelper' = VmnetHelper
               /\ SSHPort' = (IF op' = "GetSSHPort" /\ SSHPort = 0 THEN 22 ELSE SSHPort)
               /\ SSHUser' = (IF op' = "GetSSHUsername" /\ SSHUser = "" THEN "docker"
                              ELSE SSHUser))
       /\ driverVars' # driverVars
           => op' \in {"Create", "Start", "Restart", "GetSSHPort", "GetSSHUsername"}
      ]_vars

\* GetSSHPort, called on a driver not yet created, has stored the default
\* port in the record.
C18_Witness ==
    /\ pc = "returned" /\ op = "GetSSHPort" /\ ~created /\ SSHPort = 22

\* C19 as stated: Start undoes nothing when setupIP fails, so the GetState
\* called right after a Start that returned the error of setupIP returns
\* Running.
C19_RunningAfterFailedStart ==
    (pc = "returned" /\ op = "GetState" /\ prev = "start_noip")
        => (ret.err = "nil" /\ ret.val = "Running")

\* C19: Start performs no rollback: the step of Start that returns the
\* error of setupIP (hard or retryable) changes nothing on the host, so the
\* PID file written by that Start stays recorded, and no process and no
\* helper is stopped by it.  The GetState called right after returns Running
\* when the hypervisor or the helper recorded is still alive and the query
\* does not fail; it returns Stopped when they have exited by themselves,
\* and Error when the query fails.
C19_NoRollback ==
    [][/\ (pc = "setup_ip" /\ pc' = "returned" /\ ret'.err \in {"ip_hard", "ip_retry"})
           => (hostVars' = hostVars /\ pidfile \in PIDs)
       /\ (pc = "idle" /\ pc' = "returned" /\ op' = "GetState" /\ prev' = "start_noip")
           => (/\ ret'.err = "nil"
                   => ret'.val = (IF IsVfkit(pidfile) \/ (VmnetHelper /\ hpidfile /\ HelperAlive)
                                  THEN "Running" ELSE "Stopped")
               /\ ret'.err # "nil" => ret'.val = "Error")
      ]_vars

\* In helper mode setupIP failed for good, Start returned its error, and the
\* GetState called next has found hypervisor and helper running.
C19_Witness ==
    /\ pc = "returned" /\ op = "GetState" /\ prev = "start_noip"
    /\ ret.err = "nil" /\ ret.val = "Running"
    /\ VmnetHelper /\ IsVfkit(pidfile) /\ hpidfile /\ HelperAlive /\ obs.hv = "Running"

\* C20: no hypervisor process is orphaned: every live vfkit process launched
\* for the instance is the one recorded in the PID file, so at most one is
\* alive, and a GetState that finds the hypervisor Stopped runs when none is
\* alive.
C20_NoOrphanHypervisor ==
    /\ AliveVfkit \subseteq {pidfile}
    /\ Cardinality(AliveVfkit) <= 1
    /\ (pc = "returned" /\ op = "GetState" /\ obs.hv = "Stopped") => AliveVfkit = {}

====
